---- MODULE Spec2Model ----
(***************************************************************************)
(* A model of zentui's reducer (src/app/mod.rs): the BoardView selection   *)
(* state, the issue store, the pending-task counter, the board fetch and   *)
(* the issue fetches it fans out, and the exclusive external edit.         *)
(*                                                                         *)
(* Indices are 0-based as in the source; At(s, i) reads the element the    *)
(* source writes s[i].  A Rust panic ends the session: it is recorded in   *)
(* the variable panic and no operation is applied afterwards.              *)
(***************************************************************************)
EXTENDS Integers, Sequences, FiniteSets, Bags, TLC

(***************************************************************************)
(* Bounds of the model.                                                    *)
(***************************************************************************)
\* the boards returned by the board-fetch service have 0..MaxPipelines pipelines
MaxPipelines == 3
\* the number of issues of the long pipeline (longer than the fan-out limit)
LongLen == 8
\* the longest key sequence input_binding is evaluated on
MaxKeys == 2

(***************************************************************************)
(* Program constants.                                                      *)
(***************************************************************************)
\* .take(7) in the fan-out of LoadedBoard
FetchLimit == 7
\* num_pending_tasks: 1 in App::create
InitialPendingTasks == 1

(***************************************************************************)
(* Values.                                                                 *)
(***************************************************************************)
NoPanic == "none"
IndexOutOfBounds == "index out of bounds"
UnwrapOnErr == "called Result::unwrap() on an Err value"

Ok(v) == [ok |-> TRUE, value |-> v]
Err(e) == [ok |-> FALSE, error |-> e]

Pending == [tag |-> "Pending"]
Ready(issue) == [tag |-> "Ready", issue |-> issue]
Error(message) == [tag |-> "Error", message |-> message]

\* format!("{:?}", error): the Debug rendering of an error, a string
FormatDebug(error) == <<"Debug", error>>

Min(a, b) == IF a <= b THEN a ELSE b
\* usize::saturating_sub
saturating_sub(a, b) == IF a >= b THEN a - b ELSE 0
\* s[i] of the source, for 0 <= i < len
At(s, i) == s[i + 1]
\* Iterator::take(n)
Take(s, n) == SubSeq(s, 1, Min(n, Len(s)))

\* the errors a fetch can fail with, and the one of the external editor
FetchErrors == {"NetworkFailure", "DecodeFailure"}
EditErrors == {"EditFailure"}

\* a text is a sequence of lines
RemoteTitle == <<"Title">>
RemoteBody == <<"Body">>
EditedTexts == {<<"New title">>, <<"New title", "", "New body">>}

\* the issue the issue-fetch service returns for a number
RemoteIssue(number) == [number |-> number, title |-> RemoteTitle, body |-> RemoteBody]

(***************************************************************************)
(* The boards the board-fetch service may return; a pipeline is written as *)
(* its sequence of issue numbers.  PatternBoard(n) has n pipelines: the    *)
(* first holds issues 1 and 2, the third holds issue 2 again, the others   *)
(* are empty.  LongBoard has one pipeline of LongLen issues: issues 2 and  *)
(* 1 alternate in its first FetchLimit positions, issue 3 fills the rest.  *)
(***************************************************************************)
PatternPipeline(i) == IF i = 1 THEN <<1, 2>> ELSE IF i = 3 THEN <<2>> ELSE <<>>
PatternBoard(n) == [i \in 1..n |-> PatternPipeline(i)]
LongPipeline == [i \in 1..LongLen |-> IF i > FetchLimit THEN 3 ELSE 1 + (i % 2)]
LongBoard == <<LongPipeline>>
Boards == {PatternBoard(n) : n \in 0..MaxPipelines} \cup {LongBoard}
IssueNumbers == {1, 2, 3}
\* the index SelectIssue carries, and the one HidePipeline carries
IssueIndices == 0..LongLen
PipelineIndices == 0..MaxPipelines

BoardResults == {Ok(b) : b \in Boards} \cup {Err(e) : e \in FetchErrors}
IssueResults(number) == {Ok(RemoteIssue(number))} \cup {Err(e) : e \in FetchErrors}

(***************************************************************************)
(* PipelineView and BoardView.                                             *)
(***************************************************************************)
\* impl From<Pipeline> for PipelineView
PipelineViewFrom(pipeline) ==
    [pipeline |-> [issues |-> pipeline], hidden |-> FALSE, selected_issue |-> 0]

\* impl From<Board> for BoardView
BoardViewFrom(b) ==
    [pipelines |-> [i \in 1..Len(b) |-> PipelineViewFrom(b[i])], selected_pipeline |-> 0]

\* BoardView::default()
DefaultBoardView == [pipelines |-> <<>>, selected_pipeline |-> 0]

\* select_issue clamping to len instead of len - 1
select_issue_OffByOne(pv, issue_index) ==
    [pv EXCEPT !.selected_issue = Min(issue_index, Len(pv.pipeline.issues))]

\* PipelineView::select_issue
select_issue(pv, issue_index) ==
    [pv EXCEPT !.selected_issue =
        Min(issue_index, saturating_sub(Len(pv.pipeline.issues), 1))]

\* the outcome of an operation that may panic
Done(b) == [panicked |-> FALSE, board |-> b]
Panicked(b) == [panicked |-> TRUE, board |-> b]

\* a loop that takes the next pipeline whether it is hidden or not
NextLoop_NoSkip(pipelines, selected, cur, max) ==
    LET next == Min(cur + 1, max) IN
    IF next >= Len(pipelines) THEN -1 ELSE next

\* the loop of select_next_pipeline, from the candidate cur; -1 is the panic
\* of pipelines[selected_pipeline] out of bounds
RECURSIVE NextLoop(_, _, _, _)
NextLoop(pipelines, selected, cur, max) ==
    LET next == Min(cur + 1, max) IN
    IF next >= Len(pipelines) THEN -1
    ELSE IF ~At(pipelines, next).hidden THEN next
    ELSE IF next = max THEN selected
    ELSE NextLoop(pipelines, selected, next, max)

\* BoardView::select_next_pipeline
select_next_pipeline(b) ==
    LET max_selected_pipline == saturating_sub(Len(b.pipelines), 1)
        r == NextLoop(b.pipelines, b.selected_pipeline, b.selected_pipeline,
                      max_selected_pipline)
    IN IF r = -1 THEN Panicked(b) ELSE Done([b EXCEPT !.selected_pipeline = r])

\* the loop of select_previous_pipeline
RECURSIVE PreviousLoop(_, _, _)
PreviousLoop(pipelines, selected, cur) ==
    LET prev == saturating_sub(cur, 1) IN
    IF prev >= Len(pipelines) THEN -1
    ELSE IF ~At(pipelines, prev).hidden THEN prev
    ELSE IF prev = 0 THEN selected
    ELSE PreviousLoop(pipelines, selected, prev)

\* BoardView::select_previous_pipeline
select_previous_pipeline(b) ==
    LET r == PreviousLoop(b.pipelines, b.selected_pipeline, b.selected_pipeline)
    IN IF r = -1 THEN Panicked(b) ELSE Done([b EXCEPT !.selected_pipeline = r])

\* pipelines[selected_pipeline].hidden, which panics out of bounds
SelectedHidden(b) == At(b.pipelines, b.selected_pipeline).hidden

\* a hide_pipeline that removes the pipeline from the board
hide_pipeline_Removing(b, pipeline_index) ==
    IF pipeline_index >= Len(b.pipelines) THEN Done(b)
    ELSE Done([pipelines |-> SubSeq(b.pipelines, 1, pipeline_index)
                              \o SubSeq(b.pipelines, pipeline_index + 2,
                                        Len(b.pipelines)),
               selected_pipeline |-> 0])

\* hide_pipeline scanning forward before backward
hide_pipeline_ForwardFirst(b, pipeline_index) ==
    IF pipeline_index >= Len(b.pipelines) THEN Done(b)
    ELSE
      LET b1 == [b EXCEPT !.pipelines[pipeline_index + 1].hidden = TRUE]
          r2 == IF SelectedHidden(b1) THEN select_next_pipeline(b1) ELSE Done(b1)
          r3 == IF r2.panicked THEN r2
                ELSE IF SelectedHidden(r2.board) THEN select_previous_pipeline(r2.board)
                ELSE r2
      IN IF r3.panicked THEN r3
         ELSE IF SelectedHidden(r3.board)
              THEN Done([r3.board EXCEPT !.selected_pipeline = 0])
              ELSE r3

\* hide_pipeline without the forward scan
hide_pipeline_NoForwardScan(b, pipeline_index) ==
    IF pipeline_index >= Len(b.pipelines) THEN Done(b)
    ELSE
      LET b1 == [b EXCEPT !.pipelines[pipeline_index + 1].hidden = TRUE]
          r2 == IF SelectedHidden(b1) THEN select_previous_pipeline(b1) ELSE Done(b1)
      IN IF r2.panicked THEN r2
         ELSE IF SelectedHidden(r2.board)
              THEN Done([r2.board EXCEPT !.selected_pipeline = 0])
              ELSE r2

\* BoardView::hide_pipeline
hide_pipeline(b, pipeline_index) ==
    IF pipeline_index >= Len(b.pipelines) THEN Done(b)
    ELSE
      LET b1 == [b EXCEPT !.pipelines[pipeline_index + 1].hidden = TRUE]
          r2 == IF SelectedHidden(b1) THEN select_previous_pipeline(b1) ELSE Done(b1)
          r3 == IF r2.panicked THEN r2
                ELSE IF SelectedHidden(r2.board) THEN select_next_pipeline(r2.board)
                ELSE r2
      IN IF r3.panicked THEN r3
         ELSE IF SelectedHidden(r3.board)
              THEN Done([r3.board EXCEPT !.selected_pipeline = 0])
              ELSE r3

\* a show_all_pipelines that also selects the first pipeline
show_all_pipelines_SelectingFirst(b) ==
    [b EXCEPT !.pipelines = [i \in 1..Len(b.pipelines) |->
                                [b.pipelines[i] EXCEPT !.hidden = FALSE]],
              !.selected_pipeline = 0]

\* BoardView::show_all_pipelines
show_all_pipelines(b) ==
    [b EXCEPT !.pipelines = [i \in 1..Len(b.pipelines) |->
                                [b.pipelines[i] EXCEPT !.hidden = FALSE]]]

\* BoardView::selected_pipeline: TRUE when it returns Some
HasSelectedPipeline(b) == b.selected_pipeline < Len(b.pipelines)
selected_pipeline(b) == At(b.pipelines, b.selected_pipeline)

(***************************************************************************)
(* The issue store and the fan-out.                                        *)
(***************************************************************************)
\* an insert that merges: a failure does not replace a Ready entry
Insert_KeepingReady(map, key, value) ==
    [k \in (DOMAIN map) \cup {key} |->
        IF k # key THEN map[k]
        ELSE IF key \in DOMAIN map /\ map[key].tag = "Ready" /\ value.tag = "Error"
             THEN map[key]
             ELSE value]

\* an insert that drops the other entries
Insert_Replacing(map, key, value) == [k \in {key} |-> value]

\* an insert that keeps the entry a key already has
Insert_FirstWins(map, key, value) ==
    [k \in (DOMAIN map) \cup {key} |-> IF k \in DOMAIN map THEN map[k] ELSE value]

\* HashMap::insert
Insert(map, key, value) ==
    [k \in (DOMAIN map) \cup {key} |-> IF k = key THEN value ELSE map[k]]

\* a match that loses which error occurred
ToFutureValue_ErrorLost(result) ==
    IF result.ok THEN Ready(result.value) ELSE Error(FormatDebug("error"))

\* the match on the result in LoadedIssue and EditIssue
ToFutureValue(result) ==
    IF result.ok THEN Ready(result.value) ELSE Error(FormatDebug(result.error))

\* a closure that spawns without counting
Dispatch_NoIncrement(acc, number) ==
    [count |-> acc.count, tasks |-> acc.tasks (+) SetToBag({number})]

\* the body of the for_each closure of the fan-out: one increment, one spawn
Dispatch(acc, number) ==
    [count |-> acc.count + 1, tasks |-> acc.tasks (+) SetToBag({number})]

RECURSIVE ForEachIssue(_, _)
ForEachIssue(acc, numbers) ==
    IF numbers = <<>> THEN acc
    ELSE ForEachIssue(Dispatch(acc, Head(numbers)), Tail(numbers))

\* a fan-out that takes one issue more
FanOutIssues_OneMore(pv) == Take(pv.pipeline.issues, FetchLimit + 1)

\* a fan-out without the take(7)
FanOutIssues_Unbounded(pv) == pv.pipeline.issues

\* the issues of a pipeline a fetch is dispatched for
FanOutIssues(pv) == Take(pv.pipeline.issues, FetchLimit)

\* for pipeline in board.pipelines.iter() { ... }
RECURSIVE ForEachPipeline(_, _)
ForEachPipeline(acc, pipelines) ==
    IF pipelines = <<>> THEN acc
    ELSE ForEachPipeline(ForEachIssue(acc, FanOutIssues(Head(pipelines))),
                         Tail(pipelines))

\* an item_at that shows an issue without an entry as failed
ItemAt_ErrorDefault(map, number) ==
    IF number \in DOMAIN map THEN map[number] ELSE Error(FormatDebug("timeout"))

\* Pipeline::view, item_at: the load state an issue card is given
ItemAt(map, number) == IF number \in DOMAIN map THEN map[number] ELSE Pending

(***************************************************************************)
(* The labels of an issue card (issue_card.rs).                            *)
(***************************************************************************)
MaxWidth == 20
MaxLabels == 3

\* zi::Colour
Colour(red, green, blue) == [red |-> red, green |-> green, blue |-> blue]
black == Colour(0, 0, 0)
white == Colour(255, 255, 255)

\* An f32 that is a non-negative multiple of 2^-27 below 256 is kept
\* exactly, in two limbs: its value is (hi * 2^12 + lo) * 2^-27.
Limb == 2^12
F32(hi, lo) == [hi |-> hi, lo |-> lo]

\* round to nearest, ties to even, to the 24 significant bits of an f32
F32Round(v) ==
    LET s == CHOOSE s \in 0..12 :
                 v.hi < 2^(12 + s) /\ (s = 0 \/ v.hi >= 2^(11 + s))
        q == v.hi * 2^(12 - s) + (v.lo \div 2^s)
        rem == v.lo % 2^s
        up == 2 * rem > 2^s \/ (2 * rem = 2^s /\ q % 2 = 1)
        m == IF up THEN q + 1 ELSE q
    IN F32(m \div 2^(12 - s), (m % 2^(12 - s)) * 2^s)

\* `channel as f32 * c`, for a u8 channel
F32Mul(channel, c) ==
    F32Round(F32(channel * c.hi + ((channel * c.lo) \div Limb),
                 (channel * c.lo) % Limb))
\* a + b in f32
F32Add(a, b) ==
    F32Round(F32(a.hi + b.hi + ((a.lo + b.lo) \div Limb), (a.lo + b.lo) % Limb))
\* a > b in f32
F32Gt(a, b) == a.hi > b.hi \/ (a.hi = b.hi /\ a.lo > b.lo)
\* an integer below 256 as f32
F32From(n) == F32(n * 2^15, 0)

\* the f32 literals 0.299 = 10032775 * 2^-25, 0.587 = 4924113 * 2^-23 and
\* 0.114 = 15300821 * 2^-27
RedWeight == F32(9797, 2588)
GreenWeight == F32(19234, 3344)
BlueWeight == F32(3735, 2261)
LightThreshold == 146

\* is_light_colour: the sum is evaluated left to right, each step in f32
is_light_colour(colour) ==
    F32Gt(F32Add(F32Add(F32Mul(colour.red, RedWeight),
                        F32Mul(colour.green, GreenWeight)),
                 F32Mul(colour.blue, BlueWeight)),
          F32From(LightThreshold))

\* github::Label; a name is the sequence of its characters
Label(name, color) == [name |-> name, color |-> color]

\* UnicodeWidthChar::width: the columns of a character
WideChars == {"U+6F22", "U+5B57"}
CharWidth(c) == IF c \in WideChars THEN 2 ELSE 1
\* UnicodeWidthStr::width
RECURSIVE StrWidth(_)
StrWidth(str) ==
    IF str = <<>> THEN 0 ELSE CharWidth(Head(str)) + StrWidth(Tail(str))

\* the labels an issue can carry
Bug == Label(<<"b", "u", "g">>, Colour(215, 58, 74))
HelpWanted ==
    Label(<<"h", "e", "l", "p", " ", "w", "a", "n", "t", "e", "d">>,
          Colour(0, 134, 114))
P1 == Label(<<"P", "1">>, Colour(11, 227, 83))
Unnamed == Label(<<>>, white)
Kanji == Label(<<"U+6F22", "U+5B57">>, black)
Labels == {Bug, HelpWanted, P1, Unnamed, Kanji}
LabelSeqs == UNION {[1..n -> Labels] : n \in 0..MaxLabels}
Widths == 0..MaxWidth

\* format!(" {} ", label.name)
label_name(label) == <<" ">> \o label.name \o <<" ">>
\* Style::bold(label.color, black or white)
label_style(label) ==
    [background |-> label.color,
     foreground |-> IF is_light_colour(label.color) THEN black ELSE white]

\* the canvas before the loop: nothing drawn, position zero
EmptyCanvas == [position |-> [x |-> 0, y |-> 0], chips |-> <<>>, spaces |-> {}]

\* a body that does not reserve the column of the space
LabelBody_NoSpaceReserved(canvas, label, width) ==
    LET position == canvas.position
        label_width == StrWidth(label_name(label))
        wraps == /\ position.x > 0
                 /\ \/ position.x >= width
                    \/ label_width > saturating_sub(width, position.x)
        spaced == position.x > 0 /\ ~wraps
        x == IF wraps THEN 0 ELSE IF spaced THEN position.x + 1 ELSE position.x
        y == IF wraps THEN position.y + 1 ELSE position.y
    IN [position |-> [x |-> x + label_width, y |-> y],
        chips |-> Append(canvas.chips,
                         [x |-> x, y |-> y, width |-> label_width,
                          style |-> label_style(label)]),
        spaces |-> IF spaced THEN canvas.spaces \cup {<<position.x, position.y>>}
                   ELSE canvas.spaces]

\* the body of the loop over the labels: wrap or draw a space, then draw
\* the chip at the position and advance by its width
LabelBody(canvas, label, width) ==
    LET position == canvas.position
        label_width == StrWidth(label_name(label))
        wraps == /\ position.x > 0
                 /\ \/ position.x >= width
                    \/ label_width > saturating_sub(width, position.x + 1)
        spaced == position.x > 0 /\ ~wraps
        x == IF wraps THEN 0 ELSE IF spaced THEN position.x + 1 ELSE position.x
        y == IF wraps THEN position.y + 1 ELSE position.y
    IN [position |-> [x |-> x + label_width, y |-> y],
        chips |-> Append(canvas.chips,
                         [x |-> x, y |-> y, width |-> label_width,
                          style |-> label_style(label)]),
        spaces |-> IF spaced THEN canvas.spaces \cup {<<position.x, position.y>>}
                   ELSE canvas.spaces]

RECURSIVE LabelLoop(_, _, _)
LabelLoop(canvas, labels, width) ==
    IF labels = <<>> THEN canvas
    ELSE LabelLoop(LabelBody(canvas, Head(labels), width), Tail(labels), width)

\* a layout that fills the rows from the last label backward
DrawLabels_LastFirst(labels, width) ==
    LET Reverse(seq) == [i \in 1..Len(seq) |-> seq[Len(seq) + 1 - i]]
        canvas == LabelLoop(EmptyCanvas, Reverse(labels), width)
    IN [canvas EXCEPT !.chips = Reverse(canvas.chips)]

\* the label canvas of IssueContent::view
DrawLabels(labels, width) == LabelLoop(EmptyCanvas, labels, width)

(***************************************************************************)
(* State.                                                                  *)
(***************************************************************************)
VARIABLES
    board,              \* App.board
    issues,             \* App.issues
    num_pending_tasks,  \* App.num_pending_tasks
    board_fetch,        \* the get_oldest_board task has not delivered yet
    issue_fetches,      \* bag of issue numbers: get_issue tasks not delivered
    exclusive,          \* the issue being edited in run_exclusive, or <<>>
    panic,              \* NoPanic, or the panic that ended the session
    pressed,            \* the keys buffered for input_binding
    exited,             \* link.exit() was called
    labels,             \* IssueContent.properties.issue.labels
    frame_width         \* IssueContent.frame.size.width

vars == <<board, issues, num_pending_tasks, board_fetch, issue_fetches,
          exclusive, panic, pressed, exited, labels, frame_width>>

\* the fields of App and the tasks it spawned
app_vars == <<board, issues, num_pending_tasks, board_fetch, issue_fetches,
              exclusive, panic>>
\* the state of the key input
key_vars == <<pressed, exited>>
\* the fields of the IssueContent component of a card
card_vars == <<labels, frame_width>>

NoEdit == <<>>

\* a reducer that keeps taking messages while the editor runs
Running_DuringEdit == panic = NoPanic /\ ~exited

\* the reducer takes the next message
Running == panic = NoPanic /\ exclusive = NoEdit /\ ~exited

\* App::create
Init ==
    /\ board = DefaultBoardView
    /\ issues = <<>>
    /\ num_pending_tasks = InitialPendingTasks
    /\ board_fetch = TRUE
    /\ issue_fetches = EmptyBag
    /\ exclusive = NoEdit
    /\ panic = NoPanic
    /\ pressed = <<>>
    /\ exited = FALSE
    /\ labels = <<>>
    /\ frame_width = 0

\* applies the outcome of a BoardView operation
ApplyBoard(r) ==
    /\ board' = r.board
    /\ panic' = IF r.panicked THEN IndexOutOfBounds ELSE panic

\* Message::NextPipeline
NextPipeline ==
    /\ Running
    /\ ApplyBoard(select_next_pipeline(board))
    /\ UNCHANGED <<issues, num_pending_tasks, board_fetch, issue_fetches, exclusive>>

\* Message::PreviousPipeline
PreviousPipeline ==
    /\ Running
    /\ ApplyBoard(select_previous_pipeline(board))
    /\ UNCHANGED <<issues, num_pending_tasks, board_fetch, issue_fetches, exclusive>>

\* a SelectIssue that moves the selection of every pipeline
SelectIssue_Everywhere(issue_index) ==
    /\ Running
    /\ board' = [board EXCEPT !.pipelines =
                    [j \in 1..Len(board.pipelines) |->
                        select_issue(board.pipelines[j], issue_index)]]
    /\ UNCHANGED <<issues, num_pending_tasks, board_fetch, issue_fetches,
                   exclusive, panic>>

\* a SelectIssue that indexes the pipelines with the selection
SelectIssue_Indexing(issue_index) ==
    /\ Running
    /\ IF HasSelectedPipeline(board)
       THEN /\ board' = [board EXCEPT !.pipelines[board.selected_pipeline + 1] =
                            select_issue(selected_pipeline(board), issue_index)]
            /\ UNCHANGED panic
       ELSE /\ panic' = IndexOutOfBounds
            /\ UNCHANGED board
    /\ UNCHANGED <<issues, num_pending_tasks, board_fetch, issue_fetches, exclusive>>

\* Message::SelectIssue(issue_index)
SelectIssue(issue_index) ==
    /\ Running
    /\ board' = IF HasSelectedPipeline(board)
                THEN [board EXCEPT !.pipelines[board.selected_pipeline + 1] =
                         select_issue(selected_pipeline(board), issue_index)]
                ELSE board
    /\ UNCHANGED <<issues, num_pending_tasks, board_fetch, issue_fetches,
                   exclusive, panic>>

\* a HidePipeline that cancels the fetches of the issues of the pipeline
HidePipeline_Cancelling(pipeline_index) ==
    /\ Running
    /\ ApplyBoard(hide_pipeline(board, pipeline_index))
    /\ LET cancelled ==
             IF pipeline_index < Len(board.pipelines)
             THEN {At(board.pipelines, pipeline_index).pipeline.issues[k] :
                      k \in DOMAIN At(board.pipelines, pipeline_index).pipeline.issues}
             ELSE {}
           kept == [n \in {m \in BagToSet(issue_fetches) : m \notin cancelled} |->
                       CopiesIn(n, issue_fetches)]
       IN /\ issue_fetches' = kept
          /\ num_pending_tasks' =
                num_pending_tasks - (BagCardinality(issue_fetches) - BagCardinality(kept))
    /\ UNCHANGED <<issues, board_fetch, exclusive>>

\* Message::HidePipeline(pipeline_index)
HidePipeline(pipeline_index) ==
    /\ Running
    /\ ApplyBoard(hide_pipeline(board, pipeline_index))
    /\ UNCHANGED <<issues, num_pending_tasks, board_fetch, issue_fetches, exclusive>>

\* Message::ShowAllPipelines
ShowAllPipelines ==
    /\ Running
    /\ board' = show_all_pipelines(board)
    /\ UNCHANGED <<issues, num_pending_tasks, board_fetch, issue_fetches,
                   exclusive, panic>>

\* an unwrap_or_default in place of the unwrap
unwrap_OrDefault(result) ==
    IF result.ok THEN [panicked |-> FALSE, value |-> result.value]
    ELSE [panicked |-> FALSE, value |-> <<>>]

\* Result::unwrap
unwrap(result) ==
    IF result.ok THEN [panicked |-> FALSE, value |-> result.value]
    ELSE [panicked |-> TRUE, value |-> <<>>]

\* a fan-out that leaves the task of the board fetch counted
FanOut_NotDecrementing(view) ==
    ForEachPipeline([count |-> num_pending_tasks, tasks |-> issue_fetches],
                    view.pipelines)

\* the fan-out of LoadedBoard over the new board
FanOut(view) ==
    ForEachPipeline([count |-> num_pending_tasks - 1, tasks |-> issue_fetches],
                    view.pipelines)

\* a LoadedBoard that stores a Pending entry for every dispatched fetch
LoadedBoard_StoringPending(new_board) ==
    /\ Running
    /\ board_fetch
    /\ board_fetch' = FALSE
    /\ LET unwrapped == unwrap(new_board) IN
       IF unwrapped.panicked
       THEN /\ num_pending_tasks' = num_pending_tasks - 1
            /\ panic' = UnwrapOnErr
            /\ UNCHANGED <<board, issue_fetches, issues>>
       ELSE LET view == BoardViewFrom(unwrapped.value)
                fan == FanOut(view)
            IN /\ board' = view
               /\ num_pending_tasks' = fan.count
               /\ issue_fetches' = fan.tasks
               /\ issues' = [n \in (DOMAIN issues) \cup BagToSet(fan.tasks) |->
                                IF n \in DOMAIN issues THEN issues[n] ELSE Pending]
               /\ UNCHANGED panic
    /\ UNCHANGED exclusive

\* Message::LoadedBoard(new_board): the completion of the board fetch.  The
\* counter is decremented before the unwrap, which panics on a failure.
LoadedBoard(new_board) ==
    /\ Running
    /\ board_fetch
    /\ board_fetch' = FALSE
    /\ LET unwrapped == unwrap(new_board) IN
       IF unwrapped.panicked
       THEN /\ num_pending_tasks' = num_pending_tasks - 1
            /\ panic' = UnwrapOnErr
            /\ UNCHANGED <<board, issue_fetches>>
       ELSE LET view == BoardViewFrom(unwrapped.value)
                fan == FanOut(view)
            IN /\ board' = view
               /\ num_pending_tasks' = fan.count
               /\ issue_fetches' = fan.tasks
               /\ UNCHANGED panic
    /\ UNCHANGED <<issues, exclusive>>

\* Message::LoadedIssue(issue_number, result): the completion of an issue fetch
LoadedIssue(issue_number, result) ==
    /\ Running
    /\ BagIn(issue_number, issue_fetches)
    /\ issue_fetches' = issue_fetches (-) SetToBag({issue_number})
    /\ issues' = Insert(issues, issue_number, ToFutureValue(result))
    /\ num_pending_tasks' = num_pending_tasks - 1
    /\ UNCHANGED <<board, board_fetch, exclusive, panic>>

\* an Enter that also edits an issue whose entry is absent, fetching it anew
Enter_WithoutEntry ==
    /\ Running
    /\ IF ~HasSelectedPipeline(board)
       THEN UNCHANGED <<exclusive, panic>>
       ELSE LET pv == selected_pipeline(board) IN
            IF pv.selected_issue >= Len(pv.pipeline.issues)
            THEN panic' = IndexOutOfBounds /\ UNCHANGED exclusive
            ELSE LET number == At(pv.pipeline.issues, pv.selected_issue)
                     entry == ItemAt(issues, number) IN
                 IF entry.tag = "Ready"
                 THEN exclusive' = entry.issue /\ UNCHANGED panic
                 ELSE IF entry.tag = "Pending"
                      THEN exclusive' = RemoteIssue(number) /\ UNCHANGED panic
                      ELSE UNCHANGED <<exclusive, panic>>
    /\ UNCHANGED <<board, issues, num_pending_tasks, board_fetch, issue_fetches>>

\* input_binding for [Key::Char('\n')]: starts the exclusive edit of the
\* selected issue when its entry is Ready
Enter ==
    /\ Running
    /\ IF ~HasSelectedPipeline(board)
       THEN UNCHANGED <<exclusive, panic>>
       ELSE LET pv == selected_pipeline(board) IN
            IF pv.selected_issue >= Len(pv.pipeline.issues)
            THEN panic' = IndexOutOfBounds /\ UNCHANGED exclusive
            ELSE LET entry == ItemAt(issues, At(pv.pipeline.issues, pv.selected_issue)) IN
                 IF entry.tag = "Ready"
                 THEN exclusive' = entry.issue /\ UNCHANGED panic
                 ELSE UNCHANGED <<exclusive, panic>>
    /\ UNCHANGED <<board, issues, num_pending_tasks, board_fetch, issue_fetches>>

\* the message the closure of run_exclusive returns for the editor's result
EditMessage(issue, edit_result) ==
    [issue_number |-> issue.number,
     result |-> IF edit_result.ok
                THEN Ok([issue EXCEPT !.title = edit_result.value])
                ELSE edit_result]

\* an EditIssue that decrements the counter as LoadedIssue does
EditIssue_Decrementing(edit_result) ==
    /\ panic = NoPanic
    /\ exclusive # NoEdit
    /\ LET message == EditMessage(exclusive, edit_result) IN
       issues' = Insert(issues, message.issue_number, ToFutureValue(message.result))
    /\ num_pending_tasks' = num_pending_tasks - 1
    /\ exclusive' = NoEdit
    /\ UNCHANGED <<board, board_fetch, issue_fetches, panic>>

\* the closure of run_exclusive ends and Message::EditIssue is applied
EditIssue(edit_result) ==
    /\ panic = NoPanic
    /\ exclusive # NoEdit
    /\ LET message == EditMessage(exclusive, edit_result) IN
       issues' = Insert(issues, message.issue_number, ToFutureValue(message.result))
    /\ exclusive' = NoEdit
    /\ UNCHANGED <<board, num_pending_tasks, board_fetch, issue_fetches, panic>>

EditResults == {Ok(t) : t \in EditedTexts} \cup {Err(e) : e \in EditErrors}

(***************************************************************************)
(* The key bindings.                                                       *)
(***************************************************************************)
\* zi::Key
Ctrl(c) == <<"Ctrl", c>>
Char(c) == <<"Char", c>>
Right == <<"Right">>
Left == <<"Left">>
EnterKey == Char("\n")

\* the keys of the bindings, and one key without a binding
Keys == {Ctrl("f"), Right, Char("l"), Ctrl("b"), Left, Char("h"), EnterKey,
         Ctrl("h"), Ctrl("x"), Ctrl("c"), Char("z")}
\* the buffered key sequences input_binding is evaluated on
KeySeqs == UNION {[1..n -> Keys] : n \in 1..MaxKeys}

\* BindingTransition
Clear == "Clear"
Continue == "Continue"

\* Option<Message>
NoMessage == [type |-> "None"]
Some(type) == [type |-> type]
SomeHidePipeline(index) == [type |-> "HidePipeline", index |-> index]

\* a matcher that keeps a leader-prefixed sequence it does not recognise
BindingTransitionOf_KeepingPrefix(keys) ==
    IF keys = <<Ctrl("x")>> THEN Continue
    ELSE IF Head(keys) = Ctrl("x") /\ keys \notin {<<Ctrl("x"), Ctrl("h")>>,
                                                   <<Ctrl("x"), Ctrl("c")>>}
         THEN Continue
         ELSE Clear

\* input_binding: the transition, Clear unless the arm of [Ctrl-x] is taken
BindingTransitionOf(keys) ==
    IF keys = <<Ctrl("x")>> THEN Continue ELSE Clear

\* a table whose Ctrl-h hides the first pipeline
BindingMessageOf_HidingFirst(keys, selected) ==
    IF keys \in {<<Ctrl("f")>>, <<Right>>, <<Char("l")>>} THEN Some("NextPipeline")
    ELSE IF keys \in {<<Ctrl("b")>>, <<Left>>, <<Char("h")>>} THEN Some("PreviousPipeline")
    ELSE IF keys = <<EnterKey>> THEN NoMessage
    ELSE IF keys = <<Ctrl("h")>> THEN SomeHidePipeline(0)
    ELSE IF keys = <<Ctrl("x"), Ctrl("h")>> THEN Some("ShowAllPipelines")
    ELSE NoMessage

\* a table with the vi keys swapped
BindingMessageOf_ViSwapped(keys, selected) ==
    IF keys \in {<<Ctrl("f")>>, <<Right>>, <<Char("h")>>} THEN Some("NextPipeline")
    ELSE IF keys \in {<<Ctrl("b")>>, <<Left>>, <<Char("l")>>} THEN Some("PreviousPipeline")
    ELSE IF keys = <<EnterKey>> THEN NoMessage
    ELSE IF keys = <<Ctrl("h")>> THEN SomeHidePipeline(selected)
    ELSE IF keys = <<Ctrl("x"), Ctrl("h")>> THEN Some("ShowAllPipelines")
    ELSE NoMessage

\* input_binding: the message of the match on the pressed keys
BindingMessageOf(keys, selected) ==
    IF keys \in {<<Ctrl("f")>>, <<Right>>, <<Char("l")>>} THEN Some("NextPipeline")
    ELSE IF keys \in {<<Ctrl("b")>>, <<Left>>, <<Char("h")>>} THEN Some("PreviousPipeline")
    ELSE IF keys = <<EnterKey>> THEN NoMessage
    ELSE IF keys = <<Ctrl("h")>> THEN SomeHidePipeline(selected)
    ELSE IF keys = <<Ctrl("x"), Ctrl("h")>> THEN Some("ShowAllPipelines")
    ELSE IF keys = <<Ctrl("x"), Ctrl("c")>> THEN NoMessage
    ELSE IF keys = <<Ctrl("x")>> THEN NoMessage
    ELSE NoMessage

\* input_binding: the arm calls self.link.exit()
BindingExits(keys) == keys = <<Ctrl("x"), Ctrl("c")>>

\* App::input_binding
input_binding(keys) ==
    [transition |-> BindingTransitionOf(keys),
     message |-> BindingMessageOf(keys, board.selected_pipeline),
     exits |-> BindingExits(keys)]

\* App::update on the message of a binding; the arm of Enter runs Enter
UpdateFromBinding(keys, message) ==
    IF message.type = "NextPipeline" THEN NextPipeline
    ELSE IF message.type = "PreviousPipeline" THEN PreviousPipeline
    ELSE IF message.type = "HidePipeline" THEN HidePipeline(message.index)
    ELSE IF message.type = "ShowAllPipelines" THEN ShowAllPipelines
    ELSE IF keys = <<EnterKey>> THEN Enter
    ELSE UNCHANGED app_vars

\* a key is pressed: it is buffered, input_binding is evaluated on the
\* buffer, its message is applied and the buffer follows the transition
KeyPress(key) ==
    /\ Running
    /\ LET keys == Append(pressed, key)
           binding == input_binding(keys)
       IN /\ UpdateFromBinding(keys, binding.message)
          /\ pressed' = IF binding.transition = Continue THEN keys ELSE <<>>
          /\ exited' = binding.exits
          /\ UNCHANGED card_vars

(***************************************************************************)
(* The steps of the session.                                               *)
(***************************************************************************)
UpdateNextPipeline == NextPipeline /\ UNCHANGED <<key_vars, card_vars>>
UpdatePreviousPipeline == PreviousPipeline /\ UNCHANGED <<key_vars, card_vars>>
UpdateSelectIssue(issue_index) == SelectIssue(issue_index) /\ UNCHANGED <<key_vars, card_vars>>
UpdateHidePipeline(pipeline_index) == HidePipeline(pipeline_index) /\ UNCHANGED <<key_vars, card_vars>>
UpdateShowAllPipelines == ShowAllPipelines /\ UNCHANGED <<key_vars, card_vars>>
UpdateLoadedBoard(new_board) == LoadedBoard(new_board) /\ UNCHANGED <<key_vars, card_vars>>
UpdateLoadedIssue(issue_number, result) ==
    LoadedIssue(issue_number, result) /\ UNCHANGED <<key_vars, card_vars>>
UpdateEditIssue(edit_result) == EditIssue(edit_result) /\ UNCHANGED <<key_vars, card_vars>>

Next ==
    \/ UpdateNextPipeline
    \/ UpdatePreviousPipeline
    \/ \E i \in IssueIndices : UpdateSelectIssue(i)
    \/ \E i \in PipelineIndices : UpdateHidePipeline(i)
    \/ UpdateShowAllPipelines
    \/ \E r \in BoardResults : UpdateLoadedBoard(r)
    \/ \E n \in IssueNumbers : \E r \in IssueResults(n) : UpdateLoadedIssue(n, r)
    \/ \E r \in EditResults : UpdateEditIssue(r)
    \/ \E key \in Keys : KeyPress(key)

Spec == Init /\ [][Next]_vars

(***************************************************************************)
(* The session with its scheduling.  A completion sent through the link is *)
(* queued, and the reducer takes it when it next takes messages: a fetch   *)
(* that can be delivered again and again is delivered.  The closure of     *)
(* run_exclusive returns when the editor ends, and the editor ends.        *)
(* Nothing makes the user press a key or the board fetch complete.         *)
(***************************************************************************)
DeliverIssue ==
    \E n \in IssueNumbers : \E r \in IssueResults(n) : UpdateLoadedIssue(n, r)
EndEdit == \E r \in EditResults : UpdateEditIssue(r)

LiveSpec == Init /\ [][Next]_vars /\ SF_vars(DeliverIssue) /\ WF_vars(EndEdit)

(***************************************************************************)
(* An issue card on its own: the component is created with some labels in  *)
(* some frame, and then receives new properties and new frames.            *)
(***************************************************************************)
\* IssueContent::create
CardInit ==
    /\ labels \in LabelSeqs
    /\ frame_width \in Widths
    /\ board = DefaultBoardView
    /\ issues = <<>>
    /\ num_pending_tasks = InitialPendingTasks
    /\ board_fetch = TRUE
    /\ issue_fetches = EmptyBag
    /\ exclusive = NoEdit
    /\ panic = NoPanic
    /\ pressed = <<>>
    /\ exited = FALSE

\* IssueContent::change: properties that differ replace the current ones
change(properties) ==
    /\ labels # properties
    /\ labels' = properties
    /\ UNCHANGED <<frame_width, app_vars, key_vars>>

\* IssueContent::resize
resize(frame) ==
    /\ frame_width' = frame
    /\ UNCHANGED <<labels, app_vars, key_vars>>

\* IssueContent::view: the label canvas of the current state
view == DrawLabels(labels, frame_width)

\* the properties a card receives next: its issue gained a label at the
\* end of the list or lost the last one
LabelEdits ==
    (IF Len(labels) < MaxLabels
     THEN {Append(labels, label) : label \in Labels} ELSE {})
        \cup (IF labels # <<>> THEN {SubSeq(labels, 1, Len(labels) - 1)} ELSE {})

CardNext ==
    \/ \E properties \in LabelEdits : change(properties)
    \/ \E frame \in Widths : resize(frame)

LayoutSpec == CardInit /\ [][CardNext]_vars

(***************************************************************************)
(* Helpers of the properties.                                              *)
(***************************************************************************)
\* the 0-based indices of the pipelines of the board
PipelineRange == 0..(Len(board.pipelines) - 1)
Hidden(i) == At(board.pipelines, i).hidden
IssuesOf(i) == At(board.pipelines, i).pipeline.issues
SomeVisible == \E i \in PipelineRange : ~Hidden(i)
BoardLoaded == ~board_fetch /\ panic # UnwrapOnErr

\* the number of positions among the first FetchLimit of a pipeline of b that
\* hold issue number n
FetchedPositions(b, n) ==
    {pos \in (1..Len(b.pipelines)) \X (1..FetchLimit) :
        /\ pos[2] <= Len(b.pipelines[pos[1]].pipeline.issues)
        /\ b.pipelines[pos[1]].pipeline.issues[pos[2]] = n}

RECURSIVE SumOfFetched(_)
SumOfFetched(pipelines) ==
    IF pipelines = <<>> THEN 0
    ELSE Min(Len(Head(pipelines).pipeline.issues), FetchLimit)
         + SumOfFetched(Tail(pipelines))

(***************************************************************************)
(* C1: on a loaded non-empty board, selected_pipeline indexes a pipeline   *)
(* that is not hidden whenever some pipeline is visible, and is 0 when     *)
(* none is, whatever hide, show and navigation messages were applied.      *)
(***************************************************************************)
C1_SelectedPipelineVisible ==
    Len(board.pipelines) > 0 =>
        IF SomeVisible
        THEN board.selected_pipeline \in PipelineRange /\ ~Hidden(board.selected_pipeline)
        ELSE board.selected_pipeline = 0

\* pipelines 0 and 1 were hidden and the selection moved forward to 2
C1_Witness ==
    /\ Len(board.pipelines) = 3
    /\ Hidden(0) /\ Hidden(1) /\ ~Hidden(2)
    /\ board.selected_pipeline = 2

(***************************************************************************)
(* C2: SelectIssue(i) on a selected pipeline of N issues sets its          *)
(* selected_issue to min(i, N - 1) when N > 0 and to 0 when N = 0.         *)
(***************************************************************************)
C2_SelectIssueClamps ==
    [][\A i \in IssueIndices :
        (SelectIssue(i) /\ HasSelectedPipeline(board)) =>
            LET N == Len(IssuesOf(board.selected_pipeline)) IN
            At(board'.pipelines, board.selected_pipeline).selected_issue =
                IF N > 0 THEN (IF i < N - 1 THEN i ELSE N - 1) ELSE 0]_vars

\* the last issue of the long pipeline is selected: an index >= N - 1 was given
C2_Witness ==
    /\ Len(board.pipelines) = 1
    /\ Len(IssuesOf(0)) = LongLen
    /\ At(board.pipelines, 0).selected_issue = LongLen - 1

(***************************************************************************)
(* C3: in every reachable state every PipelineView has selected_issue      *)
(* below the number of its issues when it has issues, and 0 when it has    *)
(* none.                                                                   *)
(***************************************************************************)
C3_SelectedIssueInRange ==
    \A p \in PipelineRange :
        LET pv == At(board.pipelines, p) IN
        IF Len(pv.pipeline.issues) > 0
        THEN pv.selected_issue \in 0..(Len(pv.pipeline.issues) - 1)
        ELSE pv.selected_issue = 0

\* the second issue of pipeline 0 is selected while an empty pipeline has
\* the focus
C3_Witness ==
    /\ Len(board.pipelines) >= 2
    /\ At(board.pipelines, 0).selected_issue = 1
    /\ board.selected_pipeline = 1
    /\ IssuesOf(1) = <<>>

(***************************************************************************)
(* C4: the pending-task counter is never negative, that is the usize       *)
(* subtraction never underflows, when every completion applied belongs to  *)
(* one dispatched fetch, in whatever order the completions are applied.    *)
(***************************************************************************)
C4_CounterNeverNegative == num_pending_tasks >= 0

\* every completion was applied and an edit was stored after them
C4_Witness ==
    /\ BoardLoaded
    /\ num_pending_tasks = 0
    /\ \E n \in DOMAIN issues :
          issues[n].tag = "Ready" /\ issues[n].issue.title # RemoteTitle

(***************************************************************************)
(* C5: after every step the counter is the number of fetches dispatched    *)
(* and not yet completed: the board fetch plus the issue fetches.          *)
(***************************************************************************)
C5_CounterCountsFetches ==
    num_pending_tasks = (IF board_fetch THEN 1 ELSE 0) + BagCardinality(issue_fetches)

\* some issue fetches are completed and at least two are still in flight
C5_Witness ==
    /\ BoardLoaded
    /\ DOMAIN issues # {}
    /\ BagCardinality(issue_fetches) >= 2

(***************************************************************************)
(* C6: the store is last-write-wins per key: after LoadedIssue or          *)
(* EditIssue for issue n the entry at n is Ready(x) or Error(e) of that    *)
(* message's result, whatever the entry was; a failure after a success     *)
(* leaves Error(e); no other message changes the entry at n.               *)
(***************************************************************************)
C6_LastWriteWins ==
    [][/\ \A n \in IssueNumbers : \A r \in IssueResults(n) :
            LoadedIssue(n, r) =>
                /\ n \in DOMAIN issues'
                /\ issues'[n] = IF r.ok THEN Ready(r.value)
                                ELSE Error(FormatDebug(r.error))
       /\ \A r \in EditResults :
            EditIssue(r) =>
                LET m == EditMessage(exclusive, r) IN
                /\ m.issue_number \in DOMAIN issues'
                /\ issues'[m.issue_number] =
                      IF m.result.ok THEN Ready(m.result.value)
                      ELSE Error(FormatDebug(m.result.error))
       /\ \A n \in DOMAIN issues :
            (n \in DOMAIN issues' /\ issues'[n] # issues[n]) =>
                \/ \E r \in IssueResults(n) : LoadedIssue(n, r)
                \/ /\ exclusive # NoEdit
                   /\ exclusive.number = n
                   /\ \E r \in EditResults : EditIssue(r)]_vars

\* an entry that was Ready (an edit of it started) now holds the failure of
\* the last message applied for it
C6_Witness ==
    \E n \in DOMAIN issues :
        /\ issues[n] = Error(FormatDebug("EditFailure"))
        /\ ~BagIn(n, issue_fetches)

(***************************************************************************)
(* C7: the set of issue numbers with an entry in the store never shrinks.  *)
(***************************************************************************)
C7_StoreGrowsOnly == [][DOMAIN issues \subseteq DOMAIN issues']_vars

\* the store holds two entries, of a success and of a failure
C7_Witness ==
    /\ {1, 2} \subseteq DOMAIN issues
    /\ issues[1].tag = "Error"
    /\ issues[2].tag = "Ready"

(***************************************************************************)
(* C8 (as stated): every issue fetch in flight has a Pending entry in the  *)
(* store.                                                                  *)
(***************************************************************************)
C8_Original_PendingEntryAtDispatch ==
    \A n \in IssueNumbers :
        BagIn(n, issue_fetches) => (n \in DOMAIN issues /\ issues[n] = Pending)

(***************************************************************************)
(* C8 (amended): no entry is created when a fetch is dispatched.  An issue *)
(* number none of whose fetches has completed has no entry in the store,   *)
(* so that the store is empty right after a successful LoadedBoard, and    *)
(* item_at shows such an issue as Pending; the store never holds Pending.  *)
(***************************************************************************)
C8_NoEntryUntilCompletion ==
    /\ \A n \in IssueNumbers :
          CopiesIn(n, issue_fetches) = Cardinality(FetchedPositions(board, n)) =>
              (n \notin DOMAIN issues /\ ItemAt(issues, n) = Pending)
    /\ \A n \in DOMAIN issues : issues[n] # Pending

\* right after the fan-out of the three-pipeline board: three fetches in
\* flight, no entry
C8_Witness ==
    /\ Len(board.pipelines) = 3
    /\ CopiesIn(1, issue_fetches) = 1
    /\ CopiesIn(2, issue_fetches) = 2
    /\ issues = <<>>

(***************************************************************************)
(* C9: a successful LoadedBoard dispatches, for a pipeline of k issues,    *)
(* one fetch for each of its first min(k, 7) issues and none for a later   *)
(* position; the counter is then the sum of min(k, 7) over the pipelines.  *)
(***************************************************************************)
C9_BoundedFanOut ==
    [][\A r \in BoardResults :
        (LoadedBoard(r) /\ r.ok) =>
            /\ \A n \in IssueNumbers :
                  CopiesIn(n, issue_fetches') = Cardinality(FetchedPositions(board', n))
            /\ BagToSet(issue_fetches') \subseteq IssueNumbers
            /\ num_pending_tasks' = SumOfFetched(board'.pipelines)]_vars

\* the long board is loaded: 7 fetches for its 8 issues, none for issue 3
C9_Witness ==
    /\ Len(board.pipelines) = 1
    /\ Len(IssuesOf(0)) > FetchLimit
    /\ num_pending_tasks = FetchLimit
    /\ BagCardinality(issue_fetches) = FetchLimit
    /\ ~BagIn(3, issue_fetches)

(***************************************************************************)
(* C10: a LoadedBoard that carries a failure is not recovered: the unwrap  *)
(* panics, no board and no error value is stored, and no message is        *)
(* applied afterwards.                                                     *)
(***************************************************************************)
C10_BoardFailureAborts ==
    [][/\ \A r \in BoardResults :
            (LoadedBoard(r) /\ ~r.ok) =>
                /\ panic' = UnwrapOnErr
                /\ board' = board
                /\ issues' = issues
       /\ panic # UnwrapOnErr]_vars

\* the session ended in the unwrap of the failed board fetch
C10_Witness ==
    /\ panic = UnwrapOnErr
    /\ ~board_fetch
    /\ board = DefaultBoardView
    /\ issues = <<>>

(***************************************************************************)
(* C11: a failed issue fetch is recovered locally: LoadedIssue(n, Err(e))  *)
(* stores Error(message) at n, decrements the counter by one, does not     *)
(* panic, and leaves the board and every other entry of the store          *)
(* unchanged.                                                              *)
(***************************************************************************)
C11_IssueFailureRecovered ==
    [][\A n \in IssueNumbers : \A e \in FetchErrors :
        LoadedIssue(n, Err(e)) =>
            /\ DOMAIN issues' = (DOMAIN issues) \cup {n}
            /\ issues'[n] = Error(FormatDebug(e))
            /\ \A k \in (DOMAIN issues) \ {n} : issues'[k] = issues[k]
            /\ num_pending_tasks' = num_pending_tasks - 1
            /\ panic' = NoPanic
            /\ board' = board]_vars

\* issue 1 failed to load next to a loaded issue 2, and the session goes on
C11_Witness ==
    /\ panic = NoPanic
    /\ {1, 2} \subseteq DOMAIN issues
    /\ issues[1] = Error(FormatDebug("DecodeFailure"))
    /\ issues[2] = Ready(RemoteIssue(2))
    /\ Len(board.pipelines) = 2

(***************************************************************************)
(* C12: EditIssue(n, result) stores Ready(issue) or Error(message) at n,   *)
(* an Error replacing the Ready entry the edit started from, and leaves    *)
(* the pending counter and the board unchanged.                            *)
(***************************************************************************)
C12_EditLeavesCounterAndBoard ==
    [][\A r \in EditResults :
        EditIssue(r) =>
            LET m == EditMessage(exclusive, r) IN
            /\ issues[m.issue_number].tag = "Ready"
            /\ issues'[m.issue_number] =
                  IF r.ok THEN Ready(m.result.value) ELSE Error(FormatDebug(r.error))
            /\ num_pending_tasks' = num_pending_tasks
            /\ board' = board]_vars

\* a failed edit was stored while issue fetches are still in flight
C12_Witness ==
    /\ num_pending_tasks > 0
    /\ exclusive = NoEdit
    /\ \E n \in DOMAIN issues : issues[n] = Error(FormatDebug("EditFailure"))

(***************************************************************************)
(* C17: input_binding returns Continue exactly when the buffered keys are  *)
(* the leader Ctrl-x alone, and then no message; for every other sequence, *)
(* bound or not, it returns Clear, so that the buffer never holds more     *)
(* than the leader.                                                        *)
(***************************************************************************)
LeaderAloneContinues ==
    \A keys \in KeySeqs :
        /\ (BindingTransitionOf(keys) = Continue) <=> (keys = <<Ctrl("x")>>)
        /\ BindingTransitionOf(keys) \in {Continue, Clear}

C17_ContinueOnlyOnLeader ==
    /\ LeaderAloneContinues
    /\ input_binding(<<Ctrl("x")>>) =
          [transition |-> Continue, message |-> NoMessage, exits |-> FALSE]
    /\ pressed \in {<<>>, <<Ctrl("x")>>}

\* the leader is buffered while the board is loaded and fetches are in flight
C17_Witness ==
    /\ pressed = <<Ctrl("x")>>
    /\ BoardLoaded
    /\ num_pending_tasks > 0

(***************************************************************************)
(* C18: input_binding maps the pressed keys by a fixed table: Right, l and *)
(* Ctrl-f give NextPipeline; Left, h and Ctrl-b give PreviousPipeline;     *)
(* Ctrl-x Ctrl-h gives ShowAllPipelines; Ctrl-x Ctrl-c calls exit and      *)
(* gives no message; a sequence without a binding (the bindings are those, *)
(* Enter, Ctrl-h and the leader Ctrl-x) gives no message and no exit.      *)
(***************************************************************************)
BoundKeySeqs ==
    {<<Right>>, <<Char("l")>>, <<Ctrl("f")>>, <<Left>>, <<Char("h")>>, <<Ctrl("b")>>,
     <<EnterKey>>, <<Ctrl("h")>>, <<Ctrl("x")>>,
     <<Ctrl("x"), Ctrl("h")>>, <<Ctrl("x"), Ctrl("c")>>}

TableBinds ==
    \A keys \in KeySeqs : \A selected \in PipelineIndices :
        LET binding == [message |-> BindingMessageOf(keys, selected),
                        exits |-> BindingExits(keys)] IN
        /\ keys \in {<<Right>>, <<Char("l")>>, <<Ctrl("f")>>} =>
              binding.message = Some("NextPipeline")
        /\ keys \in {<<Left>>, <<Char("h")>>, <<Ctrl("b")>>} =>
              binding.message = Some("PreviousPipeline")
        /\ keys = <<Ctrl("x"), Ctrl("h")>> => binding.message = Some("ShowAllPipelines")
        /\ keys = <<Ctrl("x"), Ctrl("c")>> => binding.message = NoMessage
        /\ binding.exits <=> (keys = <<Ctrl("x"), Ctrl("c")>>)
        /\ keys \notin BoundKeySeqs => binding.message = NoMessage

VisibleAfter(i) == {j \in PipelineRange : j > i /\ ~Hidden(j)}
VisibleBefore(i) == {j \in PipelineRange : j < i /\ ~Hidden(j)}
Least(S) == CHOOSE x \in S : \A y \in S : x <= y
Greatest(S) == CHOOSE x \in S : \A y \in S : x >= y

C19_NavigationSkipsHidden ==
    [][LET sel == board.selected_pipeline IN
       /\ (NextPipeline /\ Len(board.pipelines) > 0) =>
             /\ board'.selected_pipeline =
                   IF VisibleAfter(sel) = {} THEN sel ELSE Least(VisibleAfter(sel))
             /\ board'.pipelines = board.pipelines
             /\ panic' = NoPanic
       /\ (PreviousPipeline /\ Len(board.pipelines) > 0) =>
             /\ board'.selected_pipeline =
                   IF VisibleBefore(sel) = {} THEN sel ELSE Greatest(VisibleBefore(sel))
             /\ board'.pipelines = board.pipelines
             /\ panic' = NoPanic]_vars

\* pipeline 1 is hidden between two visible ones and the last is selected
C19_Witness ==
    /\ Len(board.pipelines) = 3
    /\ ~Hidden(0) /\ Hidden(1) /\ ~Hidden(2)
    /\ board.selected_pipeline = 2

(***************************************************************************)
(* C20: HidePipeline(i) sets pipeline i hidden.  If pipeline i was the     *)
(* selected one, the selection becomes the nearest visible pipeline before *)
(* i, else the nearest visible one after i, else 0 although pipeline 0 is  *)
(* hidden; otherwise the selection is unchanged.  The issues of the        *)
(* pipelines play no role.                                                 *)
(***************************************************************************)
C20_HideReselects ==
    [][\A i \in PipelineIndices :
        (HidePipeline(i) /\ i < Len(board.pipelines)) =>
            LET sel == board.selected_pipeline IN
            /\ board'.pipelines =
                  [board.pipelines EXCEPT ![i + 1].hidden = TRUE]
            /\ board'.selected_pipeline =
                  IF sel # i THEN sel
                  ELSE IF VisibleBefore(i) # {} THEN Greatest(VisibleBefore(i))
                  ELSE IF VisibleAfter(i) # {} THEN Least(VisibleAfter(i))
                  ELSE 0
            /\ panic' = NoPanic]_vars

\* A = {#1, #2} was hidden while selected and the empty pipeline B is selected
C20_Witness ==
    /\ Len(board.pipelines) = 2
    /\ IssuesOf(0) = <<1, 2>> /\ IssuesOf(1) = <<>>
    /\ Hidden(0) /\ ~Hidden(1)
    /\ board.selected_pipeline = 1

(***************************************************************************)
(* C13: for a canvas width W >= 1 every row of the label layout has total  *)
(* width (chip widths plus one column per space between chips) <= W,       *)
(* except a row made of a single chip that is itself wider than W.  The    *)
(* total width of a row is also the column where its last chip ends.       *)
(***************************************************************************)
RowsOf(canvas) == {canvas.chips[i].y : i \in DOMAIN canvas.chips}
ChipsOn(canvas, y) == {i \in DOMAIN canvas.chips : canvas.chips[i].y = y}
RECURSIVE SumOfWidths(_, _)
SumOfWidths(canvas, chips) ==
    IF chips = {} THEN 0
    ELSE LET i == CHOOSE i \in chips : TRUE
         IN canvas.chips[i].width + SumOfWidths(canvas, chips \ {i})
RowWidth(canvas, y) ==
    SumOfWidths(canvas, ChipsOn(canvas, y)) + Cardinality(ChipsOn(canvas, y)) - 1
RowEnd(canvas, y) ==
    Greatest({canvas.chips[i].x + canvas.chips[i].width : i \in ChipsOn(canvas, y)})

RowFits(canvas, y) ==
    LET row_width == RowWidth(canvas, y) IN
    /\ RowEnd(canvas, y) = row_width
    /\ \/ row_width <= frame_width
       \/ /\ Cardinality(ChipsOn(canvas, y)) = 1
          /\ \A i \in ChipsOn(canvas, y) : canvas.chips[i].width > frame_width

C13_RowsFitWidth ==
    frame_width >= 1 =>
        LET canvas == view IN \A y \in RowsOf(canvas) : RowFits(canvas, y)

\* width 20 and chips of widths 5, 13, 4: the first two share row 0, which
\* is 19 columns wide, the third is on row 1
C13_Witness ==
    /\ frame_width = 20
    /\ labels = <<Bug, HelpWanted, P1>>
    /\ [i \in 1..3 |-> view.chips[i].width] = <<5, 13, 4>>
    /\ [i \in 1..3 |-> view.chips[i].y] = <<0, 0, 1>>
    /\ RowWidth(view, 0) = 19

(***************************************************************************)
(* C14: at a fixed width the layout of a prefix of the labels has no more  *)
(* rows than the layout of all of them, and places the chips of the prefix *)
(* where the layout of all of them places them.                            *)
(***************************************************************************)
RowCount(canvas) == Cardinality(RowsOf(canvas))
Prefix(n) == DrawLabels(SubSeq(labels, 1, n), frame_width)

PrefixKept(canvas, prefix) ==
    /\ RowCount(prefix) <= RowCount(canvas)
    /\ prefix.chips = SubSeq(canvas.chips, 1, Len(prefix.chips))

C14_RowsGrowWithLabels ==
    LET canvas == view IN
    \A n \in 0..Len(labels) :
        /\ Len(Prefix(n).chips) = n
        /\ PrefixKept(canvas, Prefix(n))

\* each of three chips opens a row of its own
C14_Witness ==
    /\ Len(labels) = 3
    /\ frame_width >= 1
    /\ RowCount(Prefix(1)) = 1 /\ RowCount(Prefix(2)) = 2 /\ RowCount(view) = 3
    /\ \A i \in 1..3 : view.chips[i].width <= frame_width

(***************************************************************************)
(* C16, over the reals: the foreground of a chip is black exactly when     *)
(* 0.299 R + 0.587 G + 0.114 B > 146 for its background colour, and white  *)
(* otherwise; white is a light colour and black is not.  The f32 sum of    *)
(* is_light_colour exceeds 146 at colours whose real sum is exactly 146.   *)
(***************************************************************************)
LumaAboveThreshold(colour) ==
    299 * colour.red + 587 * colour.green + 114 * colour.blue
        > 1000 * LightThreshold

C16_Original_BlackIffLumaAboveThreshold ==
    /\ \A i \in DOMAIN view.chips :
          /\ view.chips[i].style.background = labels[i].color
          /\ view.chips[i].style.foreground =
                IF LumaAboveThreshold(labels[i].color) THEN black ELSE white
    /\ is_light_colour(white)
    /\ ~is_light_colour(black)

(***************************************************************************)
(* C21: ShowAllPipelines clears the hidden flag of every pipeline and      *)
(* leaves the selected pipeline, the selected issue of every pipeline, the *)
(* issue store and the counter of pending tasks unchanged.                 *)
(***************************************************************************)
C21_ShowAllOnlyUnhides ==
    [][ShowAllPipelines =>
        /\ Len(board'.pipelines) = Len(board.pipelines)
        /\ \A i \in PipelineRange :
              /\ ~At(board'.pipelines, i).hidden
              /\ At(board'.pipelines, i).selected_issue =
                    At(board.pipelines, i).selected_issue
              /\ At(board'.pipelines, i).pipeline = At(board.pipelines, i).pipeline
        /\ board'.selected_pipeline = board.selected_pipeline
        /\ issues' = issues
        /\ num_pending_tasks' = num_pending_tasks
        /\ panic' = NoPanic]_vars

\* every pipeline is shown, the last of three is selected, an issue other
\* than the first is selected in the first, fetches are still in flight
C21_Witness ==
    /\ Len(board.pipelines) = 3
    /\ \A i \in PipelineRange : ~Hidden(i)
    /\ board.selected_pipeline = 2
    /\ At(board.pipelines, 0).selected_issue = 1
    /\ num_pending_tasks > 0
    /\ issues # <<>>

(***************************************************************************)
(* C22: while the board has no pipelines the accessors of the selected     *)
(* pipeline return None, and SelectIssue(i), for any i, leaves the whole   *)
(* state of the reducer unchanged and does not panic.                      *)
(***************************************************************************)
C22_SelectIssueOnEmptyBoard ==
    [][Len(board.pipelines) = 0 =>
        /\ ~HasSelectedPipeline(board)
        /\ \A i \in IssueIndices : SelectIssue(i) => UNCHANGED app_vars]_vars

\* the board was loaded and it has no pipelines
C22_Witness ==
    /\ ~board_fetch
    /\ Running
    /\ board = DefaultBoardView

(***************************************************************************)
(* C23: the external edit is an exclusive section.  From the state where   *)
(* the edit of an issue has started, the only step is the one that ends    *)
(* the edit and applies its EditIssue message: no key message and no fetch *)
(* completion is applied, no fetch is dispatched, and the completions that *)
(* are in flight stay in flight until the edit has ended.                  *)
(***************************************************************************)
C23_EditIsExclusive ==
    [][exclusive # NoEdit =>
        /\ \E r \in EditResults : EditIssue(r)
        /\ exclusive' = NoEdit
        /\ \A n \in DOMAIN issues :
              n # exclusive.number => (n \in DOMAIN issues' /\ issues'[n] = issues[n])
        /\ UNCHANGED <<board, num_pending_tasks, board_fetch, issue_fetches,
                       panic, pressed, exited>>]_vars

\* an issue is being edited while fetches are in flight
C23_Witness ==
    /\ exclusive # NoEdit
    /\ issue_fetches # EmptyBag
    /\ num_pending_tasks > 0
    /\ panic = NoPanic

(***************************************************************************)
(* C24: there is no cancellation.  HidePipeline leaves the issue store,    *)
(* the counter and the fetches in flight unchanged; the completion of a    *)
(* fetch for an issue of a hidden pipeline can still be delivered, and it  *)
(* stores Ready or Error at its key and decrements the counter.            *)
(***************************************************************************)
\* every pipeline that holds the issue is hidden
OnlyInHidden(number) ==
    /\ \E i \in PipelineRange : \E k \in DOMAIN IssuesOf(i) : IssuesOf(i)[k] = number
    /\ \A i \in PipelineRange :
          (\E k \in DOMAIN IssuesOf(i) : IssuesOf(i)[k] = number) => Hidden(i)

\* the completion of a fetch for an issue of hidden pipelines is deliverable
HiddenStillDelivers ==
    \A n \in IssueNumbers :
        (Running /\ OnlyInHidden(n) /\ BagIn(n, issue_fetches)) =>
            \A r \in IssueResults(n) : ENABLED UpdateLoadedIssue(n, r)

HideAndDeliver ==
    /\ \A i \in PipelineIndices :
          HidePipeline(i) =>
              UNCHANGED <<issues, num_pending_tasks, issue_fetches, board_fetch>>
    /\ \A n \in IssueNumbers : \A r \in IssueResults(n) :
          (LoadedIssue(n, r) /\ OnlyInHidden(n)) =>
              /\ issues' = Insert(issues, n, ToFutureValue(r))
              /\ issues'[n].tag \in {"Ready", "Error"}
              /\ num_pending_tasks' = num_pending_tasks - 1

C24_HideCancelsNothing == []HiddenStillDelivers /\ [][HideAndDeliver]_vars

\* the first pipeline is hidden: the fetch of its issue 2 has delivered and
\* the one of its issue 1 is still in flight
C24_Witness ==
    /\ Len(board.pipelines) = 1
    /\ IssuesOf(0) = <<1, 2>>
    /\ Hidden(0)
    /\ BagIn(1, issue_fetches)
    /\ 2 \in DOMAIN issues
    /\ ~BagIn(2, issue_fetches)

(***************************************************************************)
(* C25: no timeout exists.  While a dispatched issue fetch has not         *)
(* delivered its completion the counter is at least 1 (at least the number *)
(* of fetches in flight); as long as no fetch of that issue number has     *)
(* delivered, the issue has no entry and its card is given Pending; and    *)
(* the reducer still takes every other message.                            *)
(***************************************************************************)
\* no fetch dispatched for the issue number has delivered its completion
NoneDelivered(number) ==
    CopiesIn(number, issue_fetches) = Cardinality(FetchedPositions(board, number))

\* a message of each kind is still taken (for HidePipeline, the one that
\* carries the index past the last pipeline)
MessagesEnabled ==
    /\ ENABLED UpdateNextPipeline
    /\ ENABLED UpdatePreviousPipeline
    /\ ENABLED UpdateShowAllPipelines
    /\ ENABLED UpdateSelectIssue(0)
    /\ ENABLED UpdateHidePipeline(MaxPipelines)
    /\ ENABLED KeyPress(EnterKey)
\* the completion of a fetch can be delivered while another fetch hangs
CompletionsEnabled ==
    \A m \in IssueNumbers :
        (BagIn(m, issue_fetches) /\ BagToSet(issue_fetches) # {m}) =>
            ENABLED UpdateLoadedIssue(m, Ok(RemoteIssue(m)))

C25_HungFetchStaysPending ==
    issue_fetches # EmptyBag =>
        /\ num_pending_tasks >= 1
        /\ num_pending_tasks >= BagCardinality(issue_fetches)
        /\ \A n \in IssueNumbers :
              (BagIn(n, issue_fetches) /\ NoneDelivered(n)) =>
                  (n \notin DOMAIN issues /\ ItemAt(issues, n) = Pending)
        /\ Running => (MessagesEnabled /\ CompletionsEnabled)

\* every fetch but the one of issue 1 has delivered, and the selection has
\* moved meanwhile
C25_Witness ==
    /\ issue_fetches = SetToBag({1})
    /\ NoneDelivered(1)
    /\ 2 \in DOMAIN issues
    /\ num_pending_tasks = 1
    /\ board.selected_pipeline > 0
    /\ Running

(***************************************************************************)
(* C26, as the specification has it: after a successful external edit the  *)
(* issue stored by EditIssue has as its title the first line of the text   *)
(* the editor returned.  The closure of run_exclusive assigns the whole    *)
(* text to the title.                                                      *)
(***************************************************************************)
FirstLine(text) == IF text = <<>> THEN <<>> ELSE <<Head(text)>>

C26_Original_TitleIsFirstLine ==
    [][\A r \in EditResults :
        (EditIssue(r) /\ r.ok) =>
            /\ issues'[exclusive.number].tag = "Ready"
            /\ issues'[exclusive.number].issue.title = FirstLine(r.value)]_vars

(***************************************************************************)
(* C27: once the board is loaded its structure is immutable: no message    *)
(* (navigation, SelectIssue, HidePipeline, ShowAllPipelines, LoadedIssue,  *)
(* EditIssue, a key press) changes the number or the order of pipelines or *)
(* the sequence of issues of a pipeline.                                   *)
(***************************************************************************)
Structure(b) == [i \in 1..Len(b.pipelines) |-> b.pipelines[i].pipeline]

C27_BoardStructureImmutable ==
    [][~board_fetch => Structure(board') = Structure(board)]_vars

\* on the loaded board of three pipelines one is hidden, the selection has
\* moved, a fetch has failed and an edit has been stored
C27_Witness ==
    /\ ~board_fetch
    /\ Structure(board) = [i \in 1..3 |-> [issues |-> PatternPipeline(i)]]
    /\ Hidden(0)
    /\ board.selected_pipeline = 1
    /\ \E n \in DOMAIN issues : issues[n].tag = "Error"
    /\ \E n \in DOMAIN issues :
          issues[n].tag = "Ready" /\ issues[n].issue.title # RemoteTitle

(***************************************************************************)
(* C28: the store after the completions depends only on the order in which *)
(* the reducer applies them.  From every state, applying the completions   *)
(* of two fetches in flight for distinct issue numbers in either order     *)
(* gives the same store and the same counter; applying two completions for *)
(* the same issue number leaves the result of the one applied last.        *)
(***************************************************************************)
\* the store and the counter after the LoadedIssue arm
AfterLoadedIssue(state, number, result) ==
    [issues |-> Insert(state.issues, number, ToFutureValue(result)),
     num_pending_tasks |-> state.num_pending_tasks - 1]
StoreAndCounter == [issues |-> issues, num_pending_tasks |-> num_pending_tasks]

\* two completions from the current state, in both orders and for one number
EitherOrder ==
    /\ \A n1, n2 \in BagToSet(issue_fetches) :
          n1 < n2 =>
              \A r1 \in IssueResults(n1), r2 \in IssueResults(n2) :
                  AfterLoadedIssue(AfterLoadedIssue(StoreAndCounter, n1, r1), n2, r2)
                      = AfterLoadedIssue(AfterLoadedIssue(StoreAndCounter, n2, r2), n1, r1)
    /\ \A n \in BagToSet(issue_fetches) :
          \A r1, r2 \in IssueResults(n) :
              LET after == AfterLoadedIssue(AfterLoadedIssue(StoreAndCounter, n, r1), n, r2)
              IN /\ after.issues[n] = ToFutureValue(r2)
                 /\ after.num_pending_tasks = num_pending_tasks - 2

\* a LoadedIssue step of the reducer is AfterLoadedIssue
StepIsAfterLoadedIssue ==
    \A n \in IssueNumbers : \A r \in IssueResults(n) :
        LoadedIssue(n, r) =>
            [issues |-> issues', num_pending_tasks |-> num_pending_tasks']
                = AfterLoadedIssue(StoreAndCounter, n, r)

C28_CompletionsCommute == []EitherOrder /\ [][StepIsAfterLoadedIssue]_vars

\* the fetches of issues 1 and 2 have all delivered: one failed, one succeeded
C28_Witness ==
    /\ BoardLoaded
    /\ issue_fetches = EmptyBag
    /\ DOMAIN issues = {1, 2}
    /\ issues[1].tag = "Error"
    /\ issues[2].tag = "Ready"
    /\ Len(board.pipelines) = 3

(***************************************************************************)
(* C29, as the specification has it: NextPipeline or PreviousPipeline      *)
(* applied while the board has no pipelines leaves the state of the        *)
(* reducer unchanged and does not panic.  Both loops index pipelines[0],   *)
(* which is out of bounds on the empty board.                              *)
(***************************************************************************)
C29_Original_NavigationOnEmptyBoard ==
    [][((NextPipeline \/ PreviousPipeline) /\ Len(board.pipelines) = 0) =>
          (UNCHANGED app_vars /\ panic' = NoPanic)]_vars

(***************************************************************************)
(* C30, as the specification has it: the Enter binding evaluated while the *)
(* selected pipeline has no issues starts no edit, gives no message,       *)
(* returns Clear and does not panic.  The binding indexes                  *)
(* issues[selected_issue], which is out of bounds in an empty pipeline.    *)
(***************************************************************************)
C30_Original_EnterOnEmptyPipeline ==
    [][(/\ KeyPress(EnterKey)
        /\ pressed = <<>>
        /\ HasSelectedPipeline(board)
        /\ selected_pipeline(board).pipeline.issues = <<>>) =>
          /\ input_binding(<<EnterKey>>).message = NoMessage
          /\ input_binding(<<EnterKey>>).transition = Clear
          /\ pressed' = <<>>
          /\ exclusive' = NoEdit
          /\ panic' = NoPanic
          /\ UNCHANGED app_vars]_vars

(***************************************************************************)
(* C31: an external edit starts only on the Enter binding and only when    *)
(* the store holds a Ready entry for the selected issue of the selected    *)
(* pipeline, and it edits the issue of that entry; with no such entry (the *)
(* entry is absent or Error, or the board is empty) Enter starts no edit.  *)
(* While the edit runs the entry stays as it was, so the EditIssue message *)
(* that ends it is applied to a number that had a Ready entry when the     *)
(* edit started, and the store changes outside a fetch completion only by  *)
(* such a message.                                                         *)
(***************************************************************************)
SelectedEntry ==
    IF HasSelectedPipeline(board)
          /\ selected_pipeline(board).selected_issue
                < Len(selected_pipeline(board).pipeline.issues)
    THEN ItemAt(issues, At(selected_pipeline(board).pipeline.issues,
                           selected_pipeline(board).selected_issue))
    ELSE Pending

EditedEntryIsReady ==
    exclusive # NoEdit => ItemAt(issues, exclusive.number) = Ready(exclusive)

EditStartsOnReady ==
    /\ (exclusive = NoEdit /\ exclusive' # NoEdit) =>
          /\ KeyPress(EnterKey)
          /\ pressed = <<>>
          /\ SelectedEntry = Ready(exclusive')
    /\ (KeyPress(EnterKey) /\ SelectedEntry.tag # "Ready") => exclusive' = NoEdit
    /\ (issues' # issues /\ issue_fetches' = issue_fetches) =>
          /\ exclusive # NoEdit
          /\ exclusive' = NoEdit
          /\ DOMAIN issues' = DOMAIN issues
          /\ \A n \in DOMAIN issues : n # exclusive.number => issues'[n] = issues[n]

C31_EditOnlyOnReady == []EditedEntryIsReady /\ [][EditStartsOnReady]_vars

\* an edit is running while the entry of another issue is an Error
C31_Witness ==
    /\ exclusive # NoEdit
    /\ \E n \in DOMAIN issues : issues[n].tag = "Error"

(***************************************************************************)
(* C32: on the single key Ctrl-h the binding gives the message             *)
(* HidePipeline(selected_pipeline) and the transition Clear, and the       *)
(* message is applied with that index; a key press hides a pipeline only   *)
(* this way, and only the pipeline that was selected.  On a board without  *)
(* pipelines the index is 0 and the message leaves the reducer unchanged.  *)
(***************************************************************************)
CtrlHHidesSelected ==
    /\ \A i \in PipelineRange :
          (~Hidden(i) /\ At(board'.pipelines, i).hidden) =>
              \A key \in Keys :
                  KeyPress(key) =>
                      /\ Append(pressed, key) = <<Ctrl("h")>>
                      /\ i = board.selected_pipeline
    /\ (pressed = <<>> /\ KeyPress(Ctrl("h"))) =>
          /\ input_binding(<<Ctrl("h")>>).message
                = SomeHidePipeline(board.selected_pipeline)
          /\ input_binding(<<Ctrl("h")>>).transition = Clear
          /\ pressed' = <<>>
          /\ HidePipeline(board.selected_pipeline)
          /\ Len(board.pipelines) = 0 =>
                (board.selected_pipeline = 0 /\ UNCHANGED app_vars)

C32_CtrlHHidesSelected == [][CtrlHHidesSelected]_vars

\* a pipeline other than the first was hidden while it was selected, and
\* the selection moved to a visible one
C32_Witness ==
    /\ pressed = <<>>
    /\ Len(board.pipelines) = 3
    /\ board.pipelines[3].hidden
    /\ ~board.pipelines[1].hidden
    /\ ~board.pipelines[2].hidden
    /\ board.selected_pipeline = 1

(***************************************************************************)
(* C33: every issue number with an entry in the store is among the first 7 *)
(* issues of some pipeline of the loaded board; an issue the board holds   *)
(* only at later positions has no entry, and its card is given Pending,    *)
(* also once the pending counter is 0.                                     *)
(***************************************************************************)
OnBoard(number) ==
    \E i \in PipelineRange : \E k \in DOMAIN IssuesOf(i) : IssuesOf(i)[k] = number

C33_EntriesAreFetchedIssues ==
    /\ \A n \in DOMAIN issues : FetchedPositions(board, n) # {}
    /\ \A n \in IssueNumbers :
          (OnBoard(n) /\ FetchedPositions(board, n) = {}) =>
              (n \notin DOMAIN issues /\ ItemAt(issues, n) = Pending)

\* every fetch of the long board has delivered and the counter is 0: the
\* issue at position 8 is on the board, has no entry and is shown Pending
C33_Witness ==
    /\ num_pending_tasks = 0
    /\ issue_fetches = EmptyBag
    /\ DOMAIN issues = {1, 2}
    /\ OnBoard(3)
    /\ FetchedPositions(board, 3) = {}
    /\ ItemAt(issues, 3) = Pending

(***************************************************************************)
(* C34: once the board load has succeeded and the fetches it dispatched    *)
(* are delivered, the pending counter is 0, and from then on it is 0 in    *)
(* every later state, whatever keys are pressed and edits made.  With the  *)
(* deliveries scheduled fairly the counter reaches 0 after the load,       *)
(* unless the session is ended first, by the exit binding or a panic: then *)
(* the remaining fetches are not delivered to the reducer.                 *)
(***************************************************************************)
AllDelivered == BoardLoaded /\ issue_fetches = EmptyBag
Stopped == panic # NoPanic \/ exited
StaysZero == (BoardLoaded /\ num_pending_tasks = 0) => num_pending_tasks' = 0

C34_CounterSettles ==
    /\ [](AllDelivered => num_pending_tasks = 0)
    /\ [][StaysZero]_vars
    /\ BoardLoaded ~> (num_pending_tasks = 0 \/ Stopped)

\* the counter is 0 on the board of three pipelines, an issue of which was
\* edited and a pipeline of which is hidden
C34_Witness ==
    /\ BoardLoaded
    /\ num_pending_tasks = 0
    /\ Len(board.pipelines) = 3
    /\ Hidden(0)
    /\ \E n \in DOMAIN issues :
          issues[n].tag = "Ready" /\ issues[n].issue.title # RemoteTitle

(***************************************************************************)
(* C35: SelectIssue(i) changes at most the selected_issue of the selected  *)
(* pipeline: the pipelines and their order, the selected_issue of every    *)
(* other pipeline, selected_pipeline, the hidden flags, the issue store    *)
(* and the pending counter are as before.                                  *)
(***************************************************************************)
SelectIssueFrame ==
    \A i \in IssueIndices :
        SelectIssue(i) =>
            /\ board'.selected_pipeline = board.selected_pipeline
            /\ Len(board'.pipelines) = Len(board.pipelines)
            /\ \A j \in PipelineRange :
                  /\ At(board'.pipelines, j).hidden = Hidden(j)
                  /\ At(board'.pipelines, j).pipeline = At(board.pipelines, j).pipeline
                  /\ j # board.selected_pipeline =>
                        At(board'.pipelines, j).selected_issue
                            = At(board.pipelines, j).selected_issue
            /\ UNCHANGED <<issues, num_pending_tasks>>

C35_SelectIssueFrame == [][SelectIssueFrame]_vars

\* the second issue of the first pipeline is selected while the third
\* pipeline, itself holding an issue, is hidden with its selection at 0
C35_Witness ==
    /\ Len(board.pipelines) = 3
    /\ board.selected_pipeline = 0
    /\ At(board.pipelines, 0).selected_issue = 1
    /\ At(board.pipelines, 2).selected_issue = 0
    /\ Hidden(2)
    /\ issues # <<>>

====
